---- MODULE Spec2Model ----
(***************************************************************************)
(* A model of the MarcSync node.js client: the Entry model (Entry.ts), the *)
(* Collection gateway (Collection.ts), the SubscriptionManager and the     *)
(* Client facade (marcsync.ts).                                            *)
(*                                                                         *)
(* Every network operation is an async method: the code up to `await       *)
(* fetch(...)` is one step (the request leaves), the continuation after    *)
(* the await is a second step (the response, or the rejection of fetch, is *)
(* classified and the local objects are changed).  Calls that have been    *)
(* issued and not yet resumed are kept in `calls`.                         *)
(***************************************************************************)
EXTENDS Integers, Sequences, FiniteSets, TLC

VARIABLES
    heap,           \* the EntryData objects: reference -> field mapping
    entries,        \* the Owned Entry instances the caller holds
    calls,          \* the calls awaiting their fetch
    ncalls,         \* number of calls issued so far
    outcome,        \* how the last resumed call ended (what the caller saw)
    trace,          \* how the calls resumed so far ended, in order
    gateway,        \* the Collection instance the caller holds
    db,             \* the backend's records of the collection, in order
    nextId,         \* number of identifiers the backend has assigned
    subscriptions,  \* SubscriptionManager._subscriptions
    hub,            \* state of the SubscriptionManager's hub connection
    exited,         \* process.exit(1) was called
    registry,       \* every on(kind, listener) call so far, in call order
    dispatch,       \* what the last inbound event did
    nevents         \* number of inbound events so far

vars == <<heap, entries, calls, ncalls, outcome, trace, gateway, db, nextId,
          subscriptions, hub, exited, registry, dispatch, nevents>>

backendVars == <<db, nextId>>
eventVars == <<subscriptions, hub, exited, registry, dispatch, nevents>>

----------------------------------------------------------------------------
(* Bounds of the model. *)

MaxEntryCalls == 2      \* calls issued in a run of SpecEntry
MaxGatewayCalls == 1    \* calls issued in a run of SpecGateway
MaxTripCalls == 3       \* calls issued in a run of SpecRoundTrip
MaxInFlight == 2        \* calls awaiting their fetch at the same time
MaxGatewayInFlight == 1 \* the same, in a run of SpecGateway
MaxListeners == 3       \* on(kind, listener) calls in a run of SpecEvents
MaxEvents == 2          \* inbound events in a run of SpecEvents
MaxRenameCalls == 3     \* calls issued in a run of SpecRename
MaxRaceCalls == 2       \* calls issued in a run of SpecRace
MaxConcurrentCalls == 2 \* calls issued in a run of SpecConcurrent

----------------------------------------------------------------------------
(* Values. *)

Undefined == "undefined"            \* JavaScript's undefined
Token == "tok"                      \* the access token given to the Client
IdKey == "_id"
Keys == {IdKey, "a", "b"}
Ids == {"e1", "e2"}
Vals == {"v1", "v2"}
CollNames == {"c1", "c2"}

\* The values a field may take: an identifier under _id, a value elsewhere.
ValsOf(k) == IF k = IdKey THEN Ids ELSE Vals

\* EntryData (Entry.ts: interface EntryData): field name -> value.
EmptyData == [k \in {} |-> Undefined]
EntryData ==
    UNION { { m \in [D -> Ids \cup Vals] : \A k \in D : m[k] \in ValsOf(k) }
            : D \in SUBSET Keys }

\* data[key]
Get(data, key) == IF key \in DOMAIN data THEN data[key] ELSE Undefined

\* A slip of data[key] = value: the mapping is replaced by the one field.
AssignAlone(data, key, value) == [k \in {key} |-> value]

\* data[key] = value
Assign(data, key, value) ==
    [k \in (DOMAIN data) \cup {key} |-> IF k = key THEN value ELSE data[k]]

\* for (const key in values) data[key] = values[key]
AssignAll(data, values) ==
    [k \in (DOMAIN data) \cup (DOMAIN values) |->
        IF k \in DOMAIN values THEN values[k] ELSE data[k]]

\* JSON.parse(JSON.stringify(m)) of a flat object: a field whose value is
\* undefined is left out of the text, every other field is kept.
JSONstringify(m) ==
    [k \in {x \in DOMAIN m : m[x] # Undefined} |-> m[k]]

----------------------------------------------------------------------------
(* The network.  fetch either rejects (a transport error) or resolves with *)
(* a response: a status and a body, which result.json() parses or not.     *)

Statuses == {200, 401, 500}

\* The body of a response as result.json() gives it: a record holding the
\* fields that are present.  `parses` is FALSE when result.json() rejects.
NoJson == [x \in {} |-> Undefined]
Response(status, parses, json) ==
    [rejected |-> FALSE, status |-> status, parses |-> parses, json |-> json]
Rejected == [rejected |-> TRUE, status |-> 0, parses |-> FALSE, json |-> NoJson]

\* !json.success
Falsy(json, field) == field \notin DOMAIN json \/ json[field] = FALSE

\* The request an operation sends: fetch(url, {method, headers, body}).
\* `version` and `collection` are the two variable parts of the url,
\* `body` is what JSON.stringify made of the body object.
Request(method, version, collection, token, body) ==
    [method |-> method, version |-> version, collection |-> collection,
     authorization |-> token, body |-> body]

NoOutcome == [op |-> "none", kind |-> "none"]

----------------------------------------------------------------------------
(* Entry.ts: BaseEntry and Entry. *)

\* new Entry(accessToken, collectionName, data): the entry keeps the
\* reference `data` and reads its identifier from data._id, once.
Entry(accessToken, collectionName, ref, data) ==
    [tier |-> "Entry", data |-> ref, collectionName |-> collectionName,
     accessToken |-> accessToken, entryId |-> Get(data, IdKey)]

\* BaseEntry.getValues(): the mapping the entry refers to.
getValues(e) == heap[e.data]

\* BaseEntry.getValue(key)
getValue(e, key) == Get(heap[e.data], key)

\* A slip of the update body: the filter is read from the mapping, not from
\* the identifier kept at construction.
UpdateBodyLiveId(e, data) ==
    [filters |-> JSONstringify([_id |-> getValue(e, IdKey)]),
     data |-> JSONstringify(data)]

\* The bodies the three Entry operations send.
UpdateBody(e, data) ==
    [filters |-> JSONstringify([_id |-> e.entryId]), data |-> JSONstringify(data)]
DeleteBody(e) ==
    [filters |-> JSONstringify([_id |-> e.entryId])]

\* `if (result.status !== 200) throw new Error(...)` inside the try, with the
\* rejection of fetch caught by the same catch: the call fails exactly when
\* fetch rejects or the status is not 200.  The body is never read.
EntryCallFails(resp) == resp.rejected \/ resp.status # 200

\* What EntryUpdateFailed is constructed with in updateValue/updateValues:
\* the caught error, which is fetch's rejection or the Error thrown for the
\* status.
UpdateCause(resp) ==
    IF resp.rejected THEN "fetch rejected" ELSE "Failed to update entry"

\* A call leaves: it is appended to the calls awaiting their fetch.
Send(c) ==
    /\ ~exited
    /\ calls' = Append(calls, c)
    /\ ncalls' = ncalls + 1

\* The outcome of the call that has just ended is added to the outcomes the
\* caller has seen, in order.
Logged == trace' = Append(trace, outcome')

\* calls without its i-th element
Remove(s, i) == [j \in 1..(Len(s) - 1) |-> IF j < i THEN s[j] ELSE s[j + 1]]

\* Entry.updateValue(key, value), up to the await.
updateValue_call(i, key, value) ==
    /\ Send([op |-> "updateValue", target |-> i, key |-> key, value |-> value,
             req |-> Request("PUT", 1, entries[i].collectionName,
                             entries[i].accessToken,
                             UpdateBody(entries[i], [k \in {key} |-> value]))])
    /\ UNCHANGED <<heap, entries, outcome>>

\* Entry.updateValue, after the await.
updateValue_resume(n, resp) ==
    LET c == calls[n]
        e == entries[c.target]
    IN  /\ c.op = "updateValue"
        /\ calls' = Remove(calls, n)
        /\ IF EntryCallFails(resp)
           THEN /\ outcome' = [op |-> c.op, target |-> c.target, call |-> c,
                               resp |-> resp, kind |-> "EntryUpdateFailed",
                               cause |-> UpdateCause(resp)]
                /\ heap' = heap
           ELSE /\ heap' = [heap EXCEPT ![e.data] = Assign(@, c.key, c.value)]
                /\ outcome' = [op |-> c.op, target |-> c.target, call |-> c,
                               resp |-> resp, kind |-> "returned",
                               value |-> e.data]
        /\ UNCHANGED <<entries, ncalls>>

\* Entry.updateValues(values), up to the await.
updateValues_call(i, values) ==
    /\ Send([op |-> "updateValues", target |-> i, values |-> values,
             req |-> Request("PUT", 1, entries[i].collectionName,
                             entries[i].accessToken,
                             UpdateBody(entries[i], values))])
    /\ UNCHANGED <<heap, entries, outcome>>

\* A slip of updateValues: the fields are written one by one before the
\* status is looked at, so a failing call leaves its first field behind.
updateValues_optimistic(n, resp) ==
    LET c == calls[n]
        e == entries[c.target]
        first == IF DOMAIN c.values = {} THEN {}
                 ELSE {CHOOSE k \in DOMAIN c.values : TRUE}
    IN  /\ c.op = "updateValues"
        /\ calls' = Remove(calls, n)
        /\ IF EntryCallFails(resp)
           THEN /\ outcome' = [op |-> c.op, target |-> c.target, call |-> c,
                               resp |-> resp, kind |-> "EntryUpdateFailed",
                               cause |-> UpdateCause(resp)]
                /\ heap' = [heap EXCEPT ![e.data] =
                               AssignAll(@, [k \in first |-> c.values[k]])]
           ELSE /\ heap' = [heap EXCEPT ![e.data] = AssignAll(@, c.values)]
                /\ outcome' = [op |-> c.op, target |-> c.target, call |-> c,
                               resp |-> resp, kind |-> "returned",
                               value |-> e.data]
        /\ UNCHANGED <<entries, ncalls>>

\* Entry.updateValues, after the await.
updateValues_resume(n, resp) ==
    LET c == calls[n]
        e == entries[c.target]
    IN  /\ c.op = "updateValues"
        /\ calls' = Remove(calls, n)
        /\ IF EntryCallFails(resp)
           THEN /\ outcome' = [op |-> c.op, target |-> c.target, call |-> c,
                               resp |-> resp, kind |-> "EntryUpdateFailed",
                               cause |-> UpdateCause(resp)]
                /\ heap' = heap
           ELSE /\ heap' = [heap EXCEPT ![e.data] = AssignAll(@, c.values)]
                /\ outcome' = [op |-> c.op, target |-> c.target, call |-> c,
                               resp |-> resp, kind |-> "returned",
                               value |-> e.data]
        /\ UNCHANGED <<entries, ncalls>>

\* Entry.delete(), up to the await.
delete_call(i) ==
    /\ Send([op |-> "delete", target |-> i,
             req |-> Request("DELETE", 1, entries[i].collectionName,
                             entries[i].accessToken, DeleteBody(entries[i]))])
    /\ UNCHANGED <<heap, entries, outcome>>

\* Entry.delete, after the await: the caught error is dropped and
\* EntryUpdateFailed is constructed with a fixed text.
delete_resume(n, resp) ==
    LET c == calls[n]
    IN  /\ c.op = "delete"
        /\ calls' = Remove(calls, n)
        /\ outcome' = IF EntryCallFails(resp)
                      THEN [op |-> c.op, target |-> c.target, call |-> c,
                            resp |-> resp, kind |-> "EntryUpdateFailed",
                            cause |-> "Could not delete entry"]
                      ELSE [op |-> c.op, target |-> c.target, call |-> c,
                            resp |-> resp, kind |-> "returned"]
        /\ UNCHANGED <<heap, entries, ncalls>>

----------------------------------------------------------------------------
(* Collection.ts: the Collection gateway, and the two network operations   *)
(* of the Client (marcsync.ts).                                            *)

\* new Collection(accessToken, collectionName)
Collection(accessToken, collectionName) ==
    [accessToken |-> accessToken, collectionName |-> collectionName]

\* Collection.getName()
getName(g) == g.collectionName

\* An optional argument: left out, or given.
NoArg == [given |-> FALSE]
Some(x) == [given |-> TRUE, value |-> x]

\* A slip of the try block: the body is read before the status is looked at,
\* so a 401 whose body is no JSON or has a falsy `success` is an Error.
ClassifyBodyFirst(resp) ==
    IF resp.rejected THEN "Error"
    ELSE IF ~resp.parses THEN "Error"
    ELSE IF Falsy(resp.json, "success") THEN "Error"
    ELSE IF resp.status = 401 THEN "Unauthorized"
    ELSE "ok"

\* The try block every Collection and Client operation opens with:
\*   if (result.status === 401) throw new Unauthorized();
\*   const json = await result.json();
\*   if (!json.success) throw new Error();
\* with fetch's rejection and json()'s rejection caught by the same catch.
\* "Unauthorized": the catch rethrows Unauthorized; "Error": the catch gets
\* another error; "ok": the rest of the try block runs.
Classify(resp) ==
    IF resp.rejected THEN "Error"
    ELSE IF resp.status = 401 THEN "Unauthorized"
    ELSE IF ~resp.parses THEN "Error"
    ELSE IF Falsy(resp.json, "success") THEN "Error"
    ELSE "ok"

\* json.field, undefined when the body lacks it
Field(json, field) == IF field \in DOMAIN json THEN json[field] ELSE Undefined

Returned(value) == [kind |-> "returned", value |-> value]
Threw(error) == [kind |-> error]

\* What the operations without a local effect return or throw.

\* Collection.exists
exists(resp) ==
    CASE Classify(resp) = "Unauthorized" -> Threw("Unauthorized")
      [] Classify(resp) = "Error" -> Returned(FALSE)
      [] OTHER -> Returned(TRUE)

\* Collection.drop
drop(resp) ==
    CASE Classify(resp) = "Unauthorized" -> Threw("Unauthorized")
      [] Classify(resp) = "Error" -> Threw("CollectionNotFound")
      [] OTHER -> Returned(Undefined)

\* Collection.setName
setName(resp) ==
    CASE Classify(resp) = "Unauthorized" -> Threw("Unauthorized")
      [] Classify(resp) = "Error" -> Threw("CollectionNotFound")
      [] OTHER -> Returned(Undefined)

\* Collection.deleteEntryById: `=== 0` is false of a missing deletedEntries.
deleteEntryById(id, resp) ==
    CASE Classify(resp) = "Unauthorized" -> Threw("Unauthorized")
      [] Classify(resp) = "Error" -> Threw("EntryNotFound")
      [] OTHER ->
            IF "deletedEntries" \in DOMAIN resp.json /\ resp.json.deletedEntries = 0
            THEN Threw("EntryNotFound")
            ELSE Returned(id)

\* A slip of deleteEntries: the zero check of deleteEntryById copied along.
deleteEntriesStrict(resp) ==
    IF Classify(resp) = "Unauthorized" THEN [kind |-> "Unauthorized"]
    ELSE IF Classify(resp) = "Error" THEN [kind |-> "EntryNotFound"]
    ELSE IF "deletedEntries" \in DOMAIN resp.json /\ resp.json.deletedEntries = 0
    THEN [kind |-> "EntryNotFound"]
    ELSE [kind |-> "returned",
          value |-> IF "deletedEntries" \in DOMAIN resp.json
                    THEN resp.json.deletedEntries ELSE Undefined]

\* Collection.deleteEntries
deleteEntries(resp) ==
    CASE Classify(resp) = "Unauthorized" -> Threw("Unauthorized")
      [] Classify(resp) = "Error" -> Threw("EntryNotFound")
      [] OTHER -> Returned(Field(resp.json, "deletedEntries"))

\* Collection.updateEntryById
updateEntryById(id, resp) ==
    CASE Classify(resp) = "Unauthorized" -> Threw("Unauthorized")
      [] Classify(resp) = "Error" -> Threw("EntryNotFound")
      [] OTHER ->
            IF "modifiedEntries" \in DOMAIN resp.json /\ resp.json.modifiedEntries = 0
            THEN Threw("EntryNotFound")
            ELSE Returned(id)

\* Collection.updateEntries
updateEntries(resp) ==
    CASE Classify(resp) = "Unauthorized" -> Threw("Unauthorized")
      [] Classify(resp) = "Error" -> Threw("EntryNotFound")
      [] OTHER -> Returned(Field(resp.json, "modifiedEntries"))

\* Client.fetchCollection
fetchCollection(name, resp) ==
    CASE Classify(resp) = "Unauthorized" -> Threw("Unauthorized")
      [] Classify(resp) = "Error" -> Threw("CollectionNotFound")
      [] OTHER -> Returned(Collection(Token, name))

\* Client.createCollection
createCollection(name, resp) ==
    CASE Classify(resp) = "Unauthorized" -> Threw("Unauthorized")
      [] Classify(resp) = "Error" -> Threw("CollectionAlreadyExists")
      [] OTHER -> Returned(Collection(Token, name))

\* The operations above, by name: the first half sends the request, the
\* second half is the operator of that name.
PlainOps == {"exists", "drop", "setName", "deleteEntryById", "deleteEntries",
             "updateEntryById", "updateEntries", "fetchCollection",
             "createCollection"}

PlainResult(c, resp) ==
    CASE c.op = "exists" -> exists(resp)
      [] c.op = "drop" -> drop(resp)
      [] c.op = "setName" -> setName(resp)
      [] c.op = "deleteEntryById" -> deleteEntryById(c.id, resp)
      [] c.op = "deleteEntries" -> deleteEntries(resp)
      [] c.op = "updateEntryById" -> updateEntryById(c.id, resp)
      [] c.op = "updateEntries" -> updateEntries(resp)
      [] c.op = "fetchCollection" -> fetchCollection(c.name, resp)
      [] c.op = "createCollection" -> createCollection(c.name, resp)

\* The first half of a Collection or Client call.
GatewayCall(c) ==
    /\ Send(c)
    /\ UNCHANGED <<heap, entries, outcome, gateway>>

exists_call ==
    GatewayCall([op |-> "exists", target |-> 0,
                 req |-> Request("GET", 0, gateway.collectionName,
                                 gateway.accessToken, NoJson)])

drop_call ==
    GatewayCall([op |-> "drop", target |-> 0,
                 req |-> Request("DELETE", 0, gateway.collectionName,
                                 gateway.accessToken, NoJson)])

setName_call(name) ==
    GatewayCall([op |-> "setName", target |-> 0, name |-> name,
                 req |-> Request("PUT", 0, gateway.collectionName,
                                 gateway.accessToken,
                                 [collectionName |-> name])])

deleteEntryById_call(id) ==
    GatewayCall([op |-> "deleteEntryById", target |-> 0, id |-> id,
                 req |-> Request("DELETE", 1, gateway.collectionName,
                                 gateway.accessToken,
                                 [filters |-> JSONstringify([_id |-> id])])])

\* JSON.stringify({filters: filter}) leaves `filters` out when filter is
\* undefined.
deleteEntries_call(filter) ==
    GatewayCall([op |-> "deleteEntries", target |-> 0, filter |-> filter,
                 req |-> Request("DELETE", 1, gateway.collectionName,
                                 gateway.accessToken,
                                 IF filter.given
                                 THEN [filters |-> JSONstringify(filter.value)]
                                 ELSE NoJson)])

updateEntryById_call(id, data) ==
    GatewayCall([op |-> "updateEntryById", target |-> 0, id |-> id, data |-> data,
                 req |-> Request("PUT", 1, gateway.collectionName,
                                 gateway.accessToken,
                                 [filters |-> JSONstringify([_id |-> id]),
                                  data |-> JSONstringify(data)])])

updateEntries_call(filter, data) ==
    GatewayCall([op |-> "updateEntries", target |-> 0, filter |-> filter,
                 data |-> data,
                 req |-> Request("PUT", 1, gateway.collectionName,
                                 gateway.accessToken,
                                 [filters |-> JSONstringify(filter),
                                  data |-> JSONstringify(data)])])

fetchCollection_call(name) ==
    GatewayCall([op |-> "fetchCollection", target |-> 0, name |-> name,
                 req |-> Request("GET", 0, name, Token, NoJson)])

createCollection_call(name) ==
    GatewayCall([op |-> "createCollection", target |-> 0, name |-> name,
                 req |-> Request("POST", 0, name, Token, NoJson)])

\* A slip of setName: a rename that succeeded is taken over into the
\* gateway's own name.
plain_resume_renaming(n, resp) ==
    LET c == calls[n]
        r == PlainResult(c, resp)
    IN  /\ c.op \in PlainOps
        /\ calls' = Remove(calls, n)
        /\ outcome' = [op |-> c.op, target |-> 0, call |-> c, resp |-> resp]
                      @@ r
        /\ gateway' = IF c.op = "setName" /\ r.kind = "returned"
                      THEN Collection(gateway.accessToken, c.name)
                      ELSE gateway
        /\ UNCHANGED <<heap, entries, ncalls>>

\* The second half of the operations without a local effect.
plain_resume(n, resp) ==
    LET c == calls[n]
        r == PlainResult(c, resp)
    IN  /\ c.op \in PlainOps
        /\ calls' = Remove(calls, n)
        /\ outcome' = [op |-> c.op, target |-> 0, call |-> c, resp |-> resp]
                      @@ r
        /\ UNCHANGED <<heap, entries, ncalls, gateway>>

\* Collection.createEntry(data), up to the await.  `data` is the caller's
\* object: the body is made from what it holds now.
createEntry_call(ref) ==
    GatewayCall([op |-> "createEntry", target |-> 0, data |-> ref,
                 req |-> Request("POST", 0, gateway.collectionName,
                                 gateway.accessToken,
                                 [data |-> JSONstringify(heap[ref])])])

\* createEntry({...}): the caller passes an object it has just made.
createEntry_literal(m) ==
    /\ Send([op |-> "createEntry", target |-> 0, data |-> Len(heap) + 1,
             req |-> Request("POST", 0, gateway.collectionName,
                             gateway.accessToken,
                             [data |-> JSONstringify(m)])])
    /\ heap' = Append(heap, m)
    /\ UNCHANGED <<entries, outcome, gateway>>

\* Collection.createEntry, after the await:
\*   data._id = json.objectId; return new Entry(token, name, data)
\* writes into the caller's object and hands that same object to the Entry.
createEntry_resume(n, resp) ==
    LET c == calls[n]
        data == Assign(heap[c.data], IdKey, Field(resp.json, "objectId"))
        e == Entry(gateway.accessToken, gateway.collectionName, c.data, data)
    IN  /\ c.op = "createEntry"
        /\ calls' = Remove(calls, n)
        /\ CASE Classify(resp) = "Unauthorized" ->
                   /\ outcome' = [op |-> c.op, target |-> 0, call |-> c,
                                  resp |-> resp] @@ Threw("Unauthorized")
                   /\ UNCHANGED <<heap, entries>>
             [] Classify(resp) = "Error" ->
                   /\ outcome' = [op |-> c.op, target |-> 0, call |-> c,
                                  resp |-> resp] @@ Threw("CollectionNotFound")
                   /\ UNCHANGED <<heap, entries>>
             [] OTHER ->
                   /\ heap' = [heap EXCEPT ![c.data] = data]
                   /\ entries' = Append(entries, e)
                   /\ outcome' = [op |-> c.op, target |-> 0, call |-> c,
                                  resp |-> resp] @@ Returned(e)
        /\ UNCHANGED <<ncalls, gateway>>

\* Collection.getEntryById(id), up to the await.
getEntryById_call(id) ==
    GatewayCall([op |-> "getEntryById", target |-> 0, id |-> id,
                 req |-> Request("PATCH", 1, gateway.collectionName,
                                 gateway.accessToken,
                                 [filters |-> JSONstringify([_id |-> id])])])

\* A slip of the catch of getEntryById: EntryNotFound is not rethrown, so it
\* ends as CollectionNotFound like any other error.
getEntryByIdNoRethrow(resp) ==
    CASE Classify(resp) = "Unauthorized" -> "Unauthorized"
      [] OTHER -> IF Classify(resp) = "ok" /\ "entries" \in DOMAIN resp.json
                     /\ Len(resp.json.entries) > 0
                  THEN "returned" ELSE "CollectionNotFound"

\* How Collection.getEntryById ends.  Reading json.entries.length of a body
\* without `entries` is a TypeError, which the catch turns into
\* CollectionNotFound like every error that is neither Unauthorized nor
\* EntryNotFound.
getEntryById(resp) ==
    CASE Classify(resp) = "Unauthorized" -> "Unauthorized"
      [] Classify(resp) = "Error" -> "CollectionNotFound"
      [] OTHER -> IF "entries" \notin DOMAIN resp.json THEN "CollectionNotFound"
                  ELSE IF Len(resp.json.entries) = 0 THEN "EntryNotFound"
                  ELSE "returned"

\* Collection.getEntryById, after the await: the Entry is made from
\* json.entries[0], the gateway's token and the gateway's name.
getEntryById_resume(n, resp) ==
    LET c == calls[n]
        out == [op |-> c.op, target |-> 0, call |-> c, resp |-> resp]
    IN  /\ c.op = "getEntryById"
        /\ calls' = Remove(calls, n)
        /\ IF getEntryById(resp) = "returned"
           THEN LET e == Entry(gateway.accessToken, gateway.collectionName,
                               Len(heap) + 1, resp.json.entries[1])
                IN  /\ heap' = Append(heap, resp.json.entries[1])
                    /\ entries' = Append(entries, e)
                    /\ outcome' = out @@ Returned(e)
           ELSE /\ outcome' = out @@ Threw(getEntryById(resp))
                /\ UNCHANGED <<heap, entries>>
        /\ UNCHANGED <<ncalls, gateway>>

\* Collection.getEntries(filter?), up to the await: `filter || {}`.
getEntries_call(filter) ==
    GatewayCall([op |-> "getEntries", target |-> 0, filter |-> filter,
                 req |-> Request("PATCH", 1, gateway.collectionName,
                                 gateway.accessToken,
                                 [filters |-> IF filter.given
                                              THEN JSONstringify(filter.value)
                                              ELSE EmptyData])])

\* Collection.getEntries, after the await: one Entry per element of
\* json.entries, in the order of the body.
getEntries_resume(n, resp) ==
    LET c == calls[n]
        out == [op |-> c.op, target |-> 0, call |-> c, resp |-> resp]
    IN  /\ c.op = "getEntries"
        /\ calls' = Remove(calls, n)
        /\ CASE Classify(resp) = "Unauthorized" ->
                   /\ outcome' = out @@ Threw("Unauthorized")
                   /\ UNCHANGED <<heap, entries>>
             [] Classify(resp) = "Error" ->
                   /\ outcome' = out @@ Threw("CollectionNotFound")
                   /\ UNCHANGED <<heap, entries>>
             [] OTHER ->
                   IF "entries" \notin DOMAIN resp.json
                   THEN /\ outcome' = out @@ Threw("CollectionNotFound")
                        /\ UNCHANGED <<heap, entries>>
                   ELSE LET got == resp.json.entries
                            es == [j \in 1..Len(got) |->
                                     Entry(gateway.accessToken,
                                           gateway.collectionName,
                                           Len(heap) + j, got[j])]
                        IN  /\ heap' = heap \o got
                            /\ entries' = entries \o es
                            /\ outcome' = out @@ Returned(es)
        /\ UNCHANGED <<ncalls, gateway>>

----------------------------------------------------------------------------
(* SubscriptionManager.ts, and Client.on (marcsync.ts). *)

EventKinds == {"entryCreated", "entryDeleted", "entryUpdated"}

\* The listeners the caller registers: functions that return, and one that
\* raises synchronously whenever it is called.
Listeners == {"listenerA", "listenerB", "raising"}
Raises(l) == l = "raising"

\* `this`, the Client that on() is called on.
Self == "client"

NoDispatch == [kind |-> "none", threw |-> FALSE, invoked |-> <<>>, seen |-> 0]

\* new BaseEntry(data, collectionName): no token, no identifier.
BaseEntry(ref, collectionName) ==
    [tier |-> "BaseEntry", data |-> ref, collectionName |-> collectionName]

\* A slip of subscribe: unshift instead of push.
subscribeFront(subs, kind, callback) ==
    IF kind \in DOMAIN subs
    THEN [subs EXCEPT ![kind] = <<callback>> \o @]
    ELSE subs @@ (kind :> <<callback>>)

\* SubscriptionManager.subscribe:
\*   if (!this._subscriptions[kind]) this._subscriptions[kind] = [];
\*   this._subscriptions[kind].push(callback);
subscribe(subs, kind, callback) ==
    IF kind \in DOMAIN subs
    THEN [subs EXCEPT ![kind] = Append(@, callback)]
    ELSE subs @@ (kind :> <<callback>>)

\* Client.on(event, listener): subscribe on the client's manager, return this.
on(kind, listener) ==
    /\ ~exited
    /\ Len(registry) < MaxListeners
    /\ subscriptions' = subscribe(subscriptions, kind, listener)
    /\ registry' = Append(registry, [kind |-> kind, listener |-> listener])
    /\ outcome' = [op |-> "on", kind |-> "returned", value |-> Self]
    /\ UNCHANGED <<heap, entries, calls, ncalls, trace, gateway, hub, exited,
                   dispatch, nevents>>

\* A slip of the forEach body: the try/catch is around the whole loop, so
\* the first callback that raises ends the loop.
RECURSIVE forEachGuardedOutside(_, _, _)
forEachGuardedOutside(list, i, args) ==
    IF i > Len(list) THEN <<>>
    ELSE <<[listener |-> list[i], args |-> args, raised |-> Raises(list[i])]>>
         \o (IF Raises(list[i]) THEN <<>>
             ELSE forEachGuardedOutside(list, i + 1, args))

\* list.forEach(callback => { try { callback(...args) } catch(e) {
\* console.error(e) } }) from the i-th callback on: the calls made, in order.
\* A callback that raises is caught inside the loop body and the loop goes on.
RECURSIVE forEach(_, _, _)
forEach(list, i, args) ==
    IF i > Len(list) THEN <<>>
    ELSE <<[listener |-> list[i], args |-> args, raised |-> Raises(list[i])]>>
         \o forEach(list, i + 1, args)

\* A slip of the handler: the mapping the message carries is written into
\* the entries with the same identifier that the caller holds.
HandleReconciling(kind, d, args, objects) ==
    LET last == objects[Len(objects)]
        Held(ref) == \E i \in DOMAIN entries :
                        /\ entries[i].data = ref
                        /\ entries[i].entryId = Get(last, IdKey)
    IN  /\ ~exited
        /\ hub = "connected"
        /\ nevents < MaxEvents
        /\ nevents' = nevents + 1
        /\ heap' = [ref \in DOMAIN heap |->
                       IF Held(ref) THEN last ELSE heap[ref]] \o objects
        /\ dispatch' =
              IF kind \in DOMAIN subscriptions
              THEN [kind |-> kind, event |-> d, threw |-> FALSE,
                    invoked |-> forEach(subscriptions[kind], 1, args),
                    seen |-> Len(registry)]
              ELSE [kind |-> kind, event |-> d, threw |-> TRUE,
                    invoked |-> <<>>, seen |-> Len(registry)]
        /\ UNCHANGED <<entries, calls, ncalls, outcome, trace, gateway,
                       subscriptions, hub, exited, registry>>

\* The handler of one inbound message of kind `kind`, d its parsed text,
\* args the arguments every callback is called with, objects the objects
\* JSON.parse made that the entries refer to.  With no list under
\* this._subscriptions[kind], `.forEach` of undefined is a TypeError that
\* leaves the handler.
Handle(kind, d, args, objects) ==
    /\ ~exited
    /\ hub = "connected"
    /\ nevents < MaxEvents
    /\ nevents' = nevents + 1
    /\ heap' = heap \o objects
    /\ dispatch' =
          IF kind \in DOMAIN subscriptions
          THEN [kind |-> kind, event |-> d, threw |-> FALSE,
                invoked |-> forEach(subscriptions[kind], 1, args),
                seen |-> Len(registry)]
          ELSE [kind |-> kind, event |-> d, threw |-> TRUE,
                invoked |-> <<>>, seen |-> Len(registry)]
    /\ UNCHANGED <<entries, calls, ncalls, outcome, trace, gateway,
                   subscriptions, hub, exited, registry>>

\* hubConnection.on("entryCreated", ...): every callback gets a new Entry on
\* d.data.values, bound to the manager's token.
entryCreated(d) ==
    Handle("entryCreated", d,
           [entry |-> Entry(Token, d.data.collectionName, Len(heap) + 1,
                            d.data.values),
            databaseId |-> d.databaseId, timestamp |-> d.timestamp],
           <<d.data.values>>)

\* hubConnection.on("entryDeleted", ...): every callback gets a new BaseEntry
\* on d.data.values.
entryDeleted(d) ==
    Handle("entryDeleted", d,
           [entry |-> BaseEntry(Len(heap) + 1, d.data.collectionName),
            databaseId |-> d.databaseId, timestamp |-> d.timestamp],
           <<d.data.values>>)

\* A slip of the entryUpdated handler: the two mappings change places.
entryUpdatedSwapped(d) ==
    Handle("entryUpdated", d,
           [oldEntry |-> BaseEntry(Len(heap) + 1, d.data.collectionName),
            newEntry |-> Entry(Token, d.data.collectionName, Len(heap) + 2,
                               d.data.oldValues),
            databaseId |-> d.databaseId, timestamp |-> d.timestamp],
           <<d.data.newValues, d.data.oldValues>>)

\* hubConnection.on("entryUpdated", ...): a BaseEntry on d.data.oldValues and
\* an Entry on d.data.newValues.
entryUpdated(d) ==
    Handle("entryUpdated", d,
           [oldEntry |-> BaseEntry(Len(heap) + 1, d.data.collectionName),
            newEntry |-> Entry(Token, d.data.collectionName, Len(heap) + 2,
                               d.data.newValues),
            databaseId |-> d.databaseId, timestamp |-> d.timestamp],
           <<d.data.oldValues, d.data.newValues>>)

\* hubConnection.start() resolves.
HandshakeOk ==
    /\ ~exited
    /\ hub = "connecting"
    /\ hub' = "connected"
    /\ UNCHANGED <<heap, entries, calls, ncalls, outcome, trace, gateway,
                   backendVars, subscriptions, exited, registry, dispatch,
                   nevents>>

\* A slip of the catch of start(): the error is logged and the process
\* goes on.
HandshakeFailNoExit ==
    /\ ~exited
    /\ hub = "connecting"
    /\ hub' = "failed"
    /\ UNCHANGED <<heap, entries, calls, ncalls, outcome, trace, gateway,
                   backendVars, subscriptions, exited, registry, dispatch,
                   nevents>>

\* hubConnection.start() rejects: console.error, process.exit(1).
HandshakeFail ==
    /\ ~exited
    /\ hub = "connecting"
    /\ hub' = "failed"
    /\ exited' = TRUE
    /\ UNCHANGED <<heap, entries, calls, ncalls, outcome, trace, gateway,
                   backendVars, subscriptions, registry, dispatch, nevents>>

----------------------------------------------------------------------------
(* SpecEntry: one Owned Entry, its three operations, and a network that    *)
(* answers each call in any way it can.                                    *)

\* The responses an Entry call can get: the body is JSON with a `success`
\* field, or fetch rejects.
EntryResponses ==
    {Rejected} \cup
    { Response(st, TRUE, [success |-> ok]) : st \in {200, 401}, ok \in BOOLEAN }
    \cup {Response(500, TRUE, [success |-> FALSE])}

\* The records an Owned Entry is constructed from: they carry an _id.
InitialData ==
    { m \in EntryData : /\ IdKey \in DOMAIN m
                        /\ "b" \notin DOMAIN m
                        /\ \A k \in DOMAIN m \ {IdKey} : m[k] = "v1" }

\* The partial mappings updateValues is called with.
UpdateData == { m \in EntryData : \A k \in DOMAIN m \ {IdKey} : m[k] = "v2" }

QuietBackend == db = <<>> /\ nextId = 0
QuietEvents ==
    /\ subscriptions = [k \in {} |-> <<>>]
    /\ hub = "connected"
    /\ exited = FALSE
    /\ registry = <<>>
    /\ dispatch = NoDispatch
    /\ nevents = 0

InitEntry ==
    /\ \E m \in InitialData :
          /\ heap = <<m>>
          /\ entries = <<Entry(Token, "c1", 1, m)>>
    /\ calls = <<>>
    /\ ncalls = 0
    /\ outcome = NoOutcome
    /\ trace = <<>>
    /\ gateway = Collection(Token, "c1")
    /\ QuietBackend
    /\ QuietEvents

EntryBound == ncalls < MaxEntryCalls /\ Len(calls) < MaxInFlight

UpdateValueCall ==
    /\ EntryBound
    /\ \E i \in DOMAIN entries, k \in Keys : \E v \in ValsOf(k) :
          updateValue_call(i, k, v)
    /\ UNCHANGED <<gateway, backendVars, eventVars, trace>>

UpdateValueResume ==
    /\ \E n \in DOMAIN calls, resp \in EntryResponses : updateValue_resume(n, resp)
    /\ UNCHANGED <<gateway, backendVars, eventVars, trace>>

UpdateValuesCall ==
    /\ EntryBound
    /\ \E i \in DOMAIN entries, m \in UpdateData : updateValues_call(i, m)
    /\ UNCHANGED <<gateway, backendVars, eventVars, trace>>

UpdateValuesResume ==
    /\ \E n \in DOMAIN calls, resp \in EntryResponses : updateValues_resume(n, resp)
    /\ UNCHANGED <<gateway, backendVars, eventVars, trace>>

DeleteCall ==
    /\ EntryBound
    /\ \E i \in DOMAIN entries : delete_call(i)
    /\ UNCHANGED <<gateway, backendVars, eventVars, trace>>

DeleteResume ==
    /\ \E n \in DOMAIN calls, resp \in EntryResponses : delete_resume(n, resp)
    /\ UNCHANGED <<gateway, backendVars, eventVars, trace>>

NextEntry ==
    \/ UpdateValueCall
    \/ UpdateValueResume
    \/ UpdateValuesCall
    \/ UpdateValuesResume
    \/ DeleteCall
    \/ DeleteResume

SpecEntry == InitEntry /\ [][NextEntry]_vars

----------------------------------------------------------------------------
(* SpecGateway: one Collection gateway and the Client, their operations,   *)
(* and a network that answers each call in any way it can.                 *)

\* The records a body's `entries` may hold.
Record1 == [_id |-> "e1", a |-> "v1"]
Record2 == [_id |-> "e2", a |-> "v2"]
EntrySeqs == {<<>>, <<Record1>>, <<Record2, Record1>>}
Counts == 0..2

\* The fields a successful body may carry besides `success`, by operation.
Extras(op) ==
    CASE op = "createEntry" -> {NoJson} \cup { [objectId |-> id] : id \in Ids }
      [] op \in {"getEntryById", "getEntries"} ->
            {NoJson} \cup { [entries |-> es] : es \in EntrySeqs }
      [] op \in {"deleteEntryById", "deleteEntries"} ->
            {NoJson} \cup { [deletedEntries |-> k] : k \in Counts }
      [] op \in {"updateEntryById", "updateEntries"} ->
            {NoJson} \cup { [modifiedEntries |-> k] : k \in Counts }
      [] OTHER -> {NoJson}

\* The responses a call of operation op can get: fetch rejects; the body is
\* no JSON; the body lacks `success` or has it false; the body has `success`
\* true and the operation's fields or not; each of them also with status 401.
GatewayResponses(op) ==
    {Rejected, Response(200, FALSE, NoJson), Response(401, FALSE, NoJson),
     Response(200, TRUE, NoJson), Response(200, TRUE, [success |-> FALSE]),
     Response(500, TRUE, [success |-> FALSE]),
     Response(401, TRUE, [success |-> FALSE])}
    \cup { Response(st, TRUE, [success |-> TRUE] @@ x) :
              st \in {200, 401}, x \in Extras(op) }

\* The objects and filters the caller passes.
NewData == {[a |-> "v1"], [_id |-> "e2", a |-> "v2"]}
Filters == {EmptyData, [a |-> "v1"]}

InitGateway ==
    /\ heap = <<>>
    /\ entries = <<>>
    /\ calls = <<>>
    /\ ncalls = 0
    /\ outcome = NoOutcome
    /\ trace = <<>>
    /\ \E name \in CollNames : gateway = Collection(Token, name)
    /\ QuietBackend
    /\ QuietEvents

Quiet == UNCHANGED <<backendVars, eventVars, trace>>
GatewayBound == ncalls < MaxGatewayCalls /\ Len(calls) < MaxGatewayInFlight

\* resume of the call of operation op, with any response
AnyResume(op) ==
    \E n \in DOMAIN calls, resp \in GatewayResponses(op) :
        /\ calls[n].op = op
        /\ plain_resume(n, resp)

ExistsCall == GatewayBound /\ exists_call /\ Quiet
ExistsResume == AnyResume("exists") /\ Quiet
DropCall == GatewayBound /\ drop_call /\ Quiet
DropResume == AnyResume("drop") /\ Quiet
SetNameCall == GatewayBound /\ (\E name \in CollNames : setName_call(name)) /\ Quiet
SetNameResume == AnyResume("setName") /\ Quiet
DeleteEntryByIdCall == GatewayBound /\ (\E id \in Ids : deleteEntryById_call(id)) /\ Quiet
DeleteEntryByIdResume == AnyResume("deleteEntryById") /\ Quiet
DeleteEntriesCall ==
    GatewayBound /\ (\E f \in {NoArg} \cup {Some(x) : x \in Filters} : deleteEntries_call(f))
    /\ Quiet
DeleteEntriesResume == AnyResume("deleteEntries") /\ Quiet
UpdateEntryByIdCall ==
    GatewayBound /\ (\E id \in Ids, d \in NewData : updateEntryById_call(id, d)) /\ Quiet
UpdateEntryByIdResume == AnyResume("updateEntryById") /\ Quiet
UpdateEntriesCall ==
    GatewayBound /\ (\E f \in Filters, d \in NewData : updateEntries_call(f, d)) /\ Quiet
UpdateEntriesResume == AnyResume("updateEntries") /\ Quiet
FetchCollectionCall == GatewayBound /\ (\E name \in CollNames : fetchCollection_call(name)) /\ Quiet
FetchCollectionResume == AnyResume("fetchCollection") /\ Quiet
CreateCollectionCall == GatewayBound /\ (\E name \in CollNames : createCollection_call(name)) /\ Quiet
CreateCollectionResume == AnyResume("createCollection") /\ Quiet

\* The caller passes a new object literal.
CreateEntryNew ==
    /\ GatewayBound
    /\ \E m \in NewData : createEntry_literal(m)
    /\ Quiet
CreateEntryResume ==
    /\ \E n \in DOMAIN calls, resp \in GatewayResponses("createEntry") :
          createEntry_resume(n, resp)
    /\ Quiet
GetEntryByIdCall == GatewayBound /\ (\E id \in Ids : getEntryById_call(id)) /\ Quiet
GetEntryByIdResume ==
    /\ \E n \in DOMAIN calls, resp \in GatewayResponses("getEntryById") :
          getEntryById_resume(n, resp)
    /\ Quiet
GetEntriesCall ==
    GatewayBound /\ (\E f \in {NoArg} \cup {Some(x) : x \in Filters} : getEntries_call(f)) /\ Quiet
GetEntriesResume ==
    /\ \E n \in DOMAIN calls, resp \in GatewayResponses("getEntries") :
          getEntries_resume(n, resp)
    /\ Quiet

NextGateway ==
    \/ ExistsCall \/ ExistsResume
    \/ DropCall \/ DropResume
    \/ SetNameCall \/ SetNameResume
    \/ CreateEntryNew \/ CreateEntryResume
    \/ GetEntryByIdCall \/ GetEntryByIdResume
    \/ GetEntriesCall \/ GetEntriesResume
    \/ DeleteEntryByIdCall \/ DeleteEntryByIdResume
    \/ DeleteEntriesCall \/ DeleteEntriesResume
    \/ UpdateEntryByIdCall \/ UpdateEntryByIdResume
    \/ UpdateEntriesCall \/ UpdateEntriesResume
    \/ FetchCollectionCall \/ FetchCollectionResume
    \/ CreateCollectionCall \/ CreateCollectionResume

SpecGateway == InitGateway /\ [][NextGateway]_vars

----------------------------------------------------------------------------
(* SpecRename: one gateway, made for the collection OriginalName, on which *)
(* setName and other operations are called one after the other or          *)
(* overlapping, each answered in any way the network can.                  *)

OriginalName == "c1"

InitRename ==
    /\ heap = <<>>
    /\ entries = <<>>
    /\ calls = <<>>
    /\ ncalls = 0
    /\ outcome = NoOutcome
    /\ trace = <<>>
    /\ gateway = Collection(Token, OriginalName)
    /\ QuietBackend
    /\ QuietEvents

RenameBound == ncalls < MaxRenameCalls /\ Len(calls) < MaxInFlight
RenameQuiet == UNCHANGED <<backendVars, eventVars>>

RenameSetNameCall ==
    /\ RenameBound
    /\ \E name \in CollNames : setName_call(name)
    /\ UNCHANGED trace
    /\ RenameQuiet
RenameSetNameResume ==
    /\ \E n \in DOMAIN calls :
          \E resp \in {Rejected, Response(401, TRUE, [success |-> TRUE]),
                       Response(200, TRUE, [success |-> FALSE]),
                       Response(200, TRUE, [success |-> TRUE])} :
              calls[n].op = "setName" /\ plain_resume(n, resp)
    /\ Logged
    /\ RenameQuiet
RenameExistsCall ==
    /\ RenameBound
    /\ exists_call
    /\ UNCHANGED trace
    /\ RenameQuiet
RenameExistsResume ==
    /\ \E n \in DOMAIN calls :
          \E resp \in {Response(200, TRUE, [success |-> TRUE]),
                       Response(200, TRUE, [success |-> FALSE])} :
              calls[n].op = "exists" /\ plain_resume(n, resp)
    /\ Logged
    /\ RenameQuiet
RenameGetEntryByIdCall ==
    /\ RenameBound
    /\ \E id \in Ids : getEntryById_call(id)
    /\ UNCHANGED trace
    /\ RenameQuiet
RenameGetEntryByIdResume ==
    /\ \E n \in DOMAIN calls :
          \E resp \in {Response(200, TRUE, [success |-> TRUE,
                                            entries |-> <<Record1>>]),
                       Response(200, TRUE, [success |-> FALSE])} :
              getEntryById_resume(n, resp)
    /\ Logged
    /\ RenameQuiet

NextRename ==
    \/ RenameSetNameCall
    \/ RenameSetNameResume
    \/ RenameExistsCall
    \/ RenameExistsResume
    \/ RenameGetEntryByIdCall
    \/ RenameGetEntryByIdResume

SpecRename == InitRename /\ [][NextRename]_vars

----------------------------------------------------------------------------
(* SpecEvents: a Client, the listeners registered on it and the messages   *)
(* its hub connection receives.                                            *)

\* The messages of the hub, parsed: {databaseId, timestamp, type, data}.
CreatedEvents ==
    { [databaseId |-> "db1", timestamp |-> 1, type |-> 0,
       data |-> [collectionName |-> "c1", values |-> Record1]],
      [databaseId |-> "db2", timestamp |-> 2, type |-> 0,
       data |-> [collectionName |-> "c2", values |-> Record2]] }
DeletedEvents ==
    { [databaseId |-> "db1", timestamp |-> 2, type |-> 1,
       data |-> [collectionName |-> "c1", values |-> Record1]] }
UpdatedEvents ==
    { [databaseId |-> "db1", timestamp |-> 2, type |-> 2,
       data |-> [collectionName |-> "c1", oldValues |-> Record1,
                 newValues |-> [_id |-> "e1", a |-> "v2"]]] }

\* new Client(accessToken): the manager is built, start() has been called.
InitEvents ==
    /\ heap = <<>>
    /\ entries = <<>>
    /\ calls = <<>>
    /\ ncalls = 0
    /\ outcome = NoOutcome
    /\ trace = <<>>
    /\ gateway = Collection(Token, "c1")
    /\ QuietBackend
    /\ subscriptions = [k \in {} |-> <<>>]
    /\ hub = "connecting"
    /\ exited = FALSE
    /\ registry = <<>>
    /\ dispatch = NoDispatch
    /\ nevents = 0

On ==
    /\ \E k \in EventKinds, l \in Listeners : on(k, l)
    /\ UNCHANGED backendVars
EntryCreatedEvent ==
    (\E d \in CreatedEvents : entryCreated(d)) /\ UNCHANGED backendVars
EntryDeletedEvent ==
    (\E d \in DeletedEvents : entryDeleted(d)) /\ UNCHANGED backendVars
EntryUpdatedEvent ==
    (\E d \in UpdatedEvents : entryUpdated(d)) /\ UNCHANGED backendVars

NextEvents ==
    \/ HandshakeOk
    \/ HandshakeFail
    \/ On
    \/ EntryCreatedEvent
    \/ EntryDeletedEvent
    \/ EntryUpdatedEvent

SpecEvents == InitEvents /\ [][NextEvents]_vars

----------------------------------------------------------------------------
(* SpecRace: the caller holds an Owned Entry and calls updateValue on it,  *)
(* one call after the other, while the hub connection delivers             *)
(* notifications about the same record to a listener of each kind.         *)

HeldRecord == Record1

InitRace ==
    /\ heap = <<HeldRecord>>
    /\ entries = <<Entry(Token, "c1", 1, HeldRecord)>>
    /\ calls = <<>>
    /\ ncalls = 0
    /\ outcome = NoOutcome
    /\ trace = <<>>
    /\ gateway = Collection(Token, "c1")
    /\ QuietBackend
    /\ subscriptions = [k \in EventKinds |-> <<"listenerA">>]
    /\ registry = <<[kind |-> "entryCreated", listener |-> "listenerA"],
                    [kind |-> "entryDeleted", listener |-> "listenerA"],
                    [kind |-> "entryUpdated", listener |-> "listenerA"]>>
    /\ hub = "connected"
    /\ exited = FALSE
    /\ dispatch = NoDispatch
    /\ nevents = 0

\* The caller notes what the mapping is and how many notifications have
\* been handled when the call leaves, and again when it ends.
RaceUpdateValueCall ==
    /\ ncalls < MaxRaceCalls
    /\ calls = <<>>
    /\ \E k \in Keys \ {IdKey} : \E v \in Vals : updateValue_call(1, k, v)
    /\ trace' = Append(trace, [op |-> "issued", nevents |-> nevents,
                               values |-> getValues(entries[1])])
    /\ UNCHANGED <<gateway, backendVars, eventVars>>

RaceUpdateValueResume ==
    /\ \E n \in DOMAIN calls :
          \E resp \in {Response(200, TRUE, [success |-> TRUE]),
                       Response(500, TRUE, [success |-> FALSE])} :
              updateValue_resume(n, resp)
    /\ trace' = Append(trace, [op |-> "ended", nevents |-> nevents,
                               kind |-> outcome'.kind])
    /\ UNCHANGED <<gateway, backendVars, eventVars>>

NextRace ==
    \/ RaceUpdateValueCall
    \/ RaceUpdateValueResume
    \/ EntryCreatedEvent
    \/ EntryDeletedEvent
    \/ EntryUpdatedEvent

SpecRace == InitRace /\ [][NextRace]_vars

----------------------------------------------------------------------------
(* SpecChannel: a Client whose listeners are all registered before the     *)
(* handshake of its hub connection has ended, and the messages the         *)
(* connection receives afterwards.                                         *)

OnWhileConnecting ==
    /\ hub = "connecting"
    /\ On

NextChannel ==
    \/ HandshakeOk
    \/ HandshakeFail
    \/ OnWhileConnecting
    \/ EntryCreatedEvent
    \/ EntryDeletedEvent
    \/ EntryUpdatedEvent

SpecChannel == InitEvents /\ [][NextChannel]_vars

----------------------------------------------------------------------------
(* A backend that stores what it is sent and never fails: a store of       *)
(* records per collection.  POST keeps the record it is sent under the     *)
(* identifier it assigns, PUT merges the fields it is sent into the        *)
(* records that match the filter, PATCH answers with the records that      *)
(* match, DELETE removes them.  /v0/entries and /v1/entries serve the      *)
(* same store.                                                             *)

\* The identifiers the backend assigns, in order.
IdSeq == <<"e1", "e2">>

\* record matches the equality filter
Matches(record, filters) ==
    \A k \in DOMAIN filters : k \in DOMAIN record /\ record[k] = filters[k]

\* the stored record r is one the request is about
Selected(r, req) ==
    /\ r.collection = req.collection
    /\ Matches(r.record, req.body.filters)

\* the records of db the request is about, in stored order
SelectedRecords(req) ==
    LET Sel(r) == Selected(r, req)
        rs == SelectSeq(db, Sel)
    IN  [i \in 1..Len(rs) |-> rs[i].record]

NumSelected(req) == Len(SelectedRecords(req))

\* What the backend answers to a request and what it stores.
Serve(req) ==
    CASE req.authorization # Token ->
            [resp |-> Response(401, TRUE, [success |-> FALSE]),
             db |-> db, nextId |-> nextId]
      [] req.authorization = Token /\ req.method = "POST" ->
            LET id == IdSeq[nextId + 1]
            IN  [resp |-> Response(200, TRUE,
                                   [success |-> TRUE, objectId |-> id]),
                 db |-> Append(db, [collection |-> req.collection,
                                    record |-> Assign(req.body.data, IdKey, id)]),
                 nextId |-> nextId + 1]
      [] req.authorization = Token /\ req.method = "PATCH" ->
            [resp |-> Response(200, TRUE,
                               [success |-> TRUE,
                                entries |-> SelectedRecords(req)]),
             db |-> db, nextId |-> nextId]
      [] req.authorization = Token /\ req.method = "PUT" ->
            [resp |-> Response(200, TRUE,
                               [success |-> TRUE,
                                modifiedEntries |-> NumSelected(req)]),
             db |-> [i \in DOMAIN db |->
                       IF Selected(db[i], req)
                       THEN [db[i] EXCEPT !.record =
                                AssignAll(@, req.body.data)]
                       ELSE db[i]],
             nextId |-> nextId]
      [] req.authorization = Token /\ req.method = "DELETE" ->
            LET Kept(r) == ~Selected(r, req)
            IN  [resp |-> Response(200, TRUE,
                                   [success |-> TRUE,
                                    deletedEntries |-> NumSelected(req)]),
                 db |-> SelectSeq(db, Kept), nextId |-> nextId]

\* The request of the n-th awaiting call arrives: the backend acts on it and
\* its response is on the way back.
BackendAnswers(n) ==
    /\ "resp" \notin DOMAIN calls[n]
    /\ calls[n].req.method = "POST" => nextId < Len(IdSeq)
    /\ LET r == Serve(calls[n].req)
       IN  /\ calls' = [calls EXCEPT ![n] = @ @@ [resp |-> r.resp]]
           /\ db' = r.db
           /\ nextId' = r.nextId
    /\ UNCHANGED <<heap, entries, ncalls, outcome, trace, gateway, eventVars>>

----------------------------------------------------------------------------
(* SpecRoundTrip: one client that issues one call after the other          *)
(* (createEntry, updateValue, getEntryById) against the backend above.     *)

InitRoundTrip ==
    /\ heap = <<>>
    /\ entries = <<>>
    /\ calls = <<>>
    /\ ncalls = 0
    /\ outcome = NoOutcome
    /\ trace = <<>>
    /\ \E name \in CollNames : gateway = Collection(Token, name)
    /\ QuietBackend
    /\ QuietEvents

\* The caller issues a call when the one before has returned.
TripBound == ncalls < MaxTripCalls /\ calls = <<>>
Answered(n) == "resp" \in DOMAIN calls[n]

TripCreateEntry ==
    /\ TripBound
    /\ \E m \in NewData : createEntry_literal(m)
    /\ UNCHANGED <<trace, backendVars, eventVars>>

\* The caller passes an object it already holds: one it created an entry
\* from, or the mapping of an entry it fetched.
TripCreateEntryAgain ==
    /\ TripBound
    /\ \E ref \in DOMAIN heap : createEntry_call(ref)
    /\ UNCHANGED <<trace, backendVars, eventVars>>

TripCreateEntryResume ==
    /\ \E n \in DOMAIN calls :
          Answered(n) /\ createEntry_resume(n, calls[n].resp)
    /\ Logged
    /\ UNCHANGED <<backendVars, eventVars>>

TripUpdateValue ==
    /\ TripBound
    /\ \E i \in DOMAIN entries, k \in Keys : \E v \in ValsOf(k) :
          updateValue_call(i, k, v)
    /\ UNCHANGED <<trace, gateway, backendVars, eventVars>>

TripUpdateValueResume ==
    /\ \E n \in DOMAIN calls :
          Answered(n) /\ updateValue_resume(n, calls[n].resp)
    /\ Logged
    /\ UNCHANGED <<gateway, backendVars, eventVars>>

TripGetEntryById ==
    /\ TripBound
    /\ \E id \in Ids : getEntryById_call(id)
    /\ UNCHANGED <<trace, backendVars, eventVars>>

TripGetEntryByIdResume ==
    /\ \E n \in DOMAIN calls :
          Answered(n) /\ getEntryById_resume(n, calls[n].resp)
    /\ Logged
    /\ UNCHANGED <<backendVars, eventVars>>

Backend == \E n \in DOMAIN calls : BackendAnswers(n)

NextRoundTrip ==
    \/ TripCreateEntry
    \/ TripCreateEntryAgain
    \/ TripCreateEntryResume
    \/ TripUpdateValue
    \/ TripUpdateValueResume
    \/ TripGetEntryById
    \/ TripGetEntryByIdResume
    \/ Backend

SpecRoundTrip == InitRoundTrip /\ [][NextRoundTrip]_vars

----------------------------------------------------------------------------
(* SpecConcurrent: one Owned Entry, the only writer of its record, whose   *)
(* updateValue and updateValues calls overlap.  The backend above applies  *)
(* the requests in the order they reach it; requests may overtake each     *)
(* other on the way there and responses on the way back.                   *)

\* The entry has been fetched: its mapping is the record the backend keeps.
InitConcurrent ==
    /\ heap = <<Record1>>
    /\ entries = <<Entry(Token, "c1", 1, Record1)>>
    /\ calls = <<>>
    /\ ncalls = 0
    /\ outcome = NoOutcome
    /\ trace = <<>>
    /\ gateway = Collection(Token, "c1")
    /\ db = <<[collection |-> "c1", record |-> Record1]>>
    /\ nextId = 1
    /\ QuietEvents

ConcurrentBound == ncalls < MaxConcurrentCalls /\ Len(calls) < MaxInFlight

\* The partial mappings updateValues is called with here.
ConcurrentData == {[a |-> "v1", b |-> "v1"], [b |-> "v2"]}

ConcurrentUpdateValue ==
    /\ ConcurrentBound
    /\ \E k \in Keys \ {IdKey} : \E v \in Vals : updateValue_call(1, k, v)
    /\ UNCHANGED <<trace, gateway, backendVars, eventVars>>

ConcurrentUpdateValueResume ==
    /\ \E n \in DOMAIN calls :
          Answered(n) /\ updateValue_resume(n, calls[n].resp)
    /\ UNCHANGED <<trace, gateway, backendVars, eventVars>>

ConcurrentUpdateValues ==
    /\ ConcurrentBound
    /\ \E m \in ConcurrentData : updateValues_call(1, m)
    /\ UNCHANGED <<trace, gateway, backendVars, eventVars>>

ConcurrentUpdateValuesResume ==
    /\ \E n \in DOMAIN calls :
          Answered(n) /\ updateValues_resume(n, calls[n].resp)
    /\ UNCHANGED <<trace, gateway, backendVars, eventVars>>

NextConcurrent ==
    \/ ConcurrentUpdateValue
    \/ ConcurrentUpdateValueResume
    \/ ConcurrentUpdateValues
    \/ ConcurrentUpdateValuesResume
    \/ Backend

SpecConcurrent == InitConcurrent /\ [][NextConcurrent]_vars

----------------------------------------------------------------------------
(* Claims about the Entry model, checked under SpecEntry. *)

EntryOps == {"updateValue", "updateValues", "delete"}

\* The step is the continuation of a call: one call stops awaiting.
Resumed == Len(calls') = Len(calls) - 1
\* The step is the first half of a call: one more call awaits.
Issued == Len(calls') = Len(calls) + 1

\* C1: a failing updateValue or updateValues call (fetch rejects or the
\* response is a non-success one, so that EntryUpdateFailed is raised) leaves
\* the entry's field mapping as it was: neither the step that sends the
\* request nor the step that raises EntryUpdateFailed adds, removes or changes
\* a key, also not for part of a multi-key updateValues.
C1_FailedUpdateKeepsValues ==
    [][ /\ (Issued => heap' = heap)
        /\ ( ( /\ Resumed
               /\ outcome'.op \in {"updateValue", "updateValues"}
               /\ outcome'.kind = "EntryUpdateFailed" )
             => heap' = heap ) ]_vars

\* A multi-key updateValues has failed whose fields differ from the entry's.
C1_Witness ==
    /\ outcome.op = "updateValues"
    /\ outcome.kind = "EntryUpdateFailed"
    /\ Cardinality(DOMAIN outcome.call.values) >= 2
    /\ \A k \in DOMAIN outcome.call.values :
          getValue(entries[outcome.target], k) # outcome.call.values[k]

\* C2: after a successful updateValue(k, v) the entry's getValue(k) is v,
\* every other key holds what it held before the continuation ran, and the
\* mapping returned is the entry's own mapping (getValues()).
C2_UpdateValueMerges ==
    [][ ( /\ Resumed
          /\ outcome'.op = "updateValue"
          /\ outcome'.kind = "returned" )
        => LET e == entries[outcome'.target]
               k == outcome'.call.key
               v == outcome'.call.value
           IN  /\ Get(heap'[e.data], k) = v
               /\ DOMAIN heap'[e.data] = DOMAIN heap[e.data] \cup {k}
               /\ \A j \in Keys \ {k} :
                     Get(heap'[e.data], j) = Get(heap[e.data], j)
               /\ outcome'.value = e.data
               /\ heap'[outcome'.value] = heap'[e.data] ]_vars

\* updateValue has succeeded on an entry that holds another key as well.
C2_Witness ==
    /\ outcome.op = "updateValue"
    /\ outcome.kind = "returned"
    /\ outcome.call.key = "b"
    /\ ~Falsy(outcome.resp.json, "success")
    /\ getValue(entries[outcome.target], "b") = outcome.call.value
    /\ getValue(entries[outcome.target], "a") = "v1"

\* C3: for updateValue, updateValues and delete a response whose body has a
\* falsy `success` is a failure even with status 200: EntryUpdateFailed is
\* raised and the field mapping is not changed.
C3_FalsySuccessFails ==
    [][ ( /\ Resumed
          /\ outcome'.op \in EntryOps
          /\ ~outcome'.resp.rejected
          /\ Falsy(outcome'.resp.json, "success") )
        => ( outcome'.kind = "EntryUpdateFailed" /\ heap' = heap ) ]_vars

\* C5: updateValue, updateValues and delete raise Unauthorized for a 401
\* response, whatever the body's `success` is.
C5_EntryUnauthorized ==
    ( /\ outcome.op \in EntryOps
      /\ ~outcome.resp.rejected
      /\ outcome.resp.status = 401 )
    => outcome.kind = "Unauthorized"

\* The error the catch of an Entry operation receives: the rejection of
\* fetch, or the Error thrown for the status (`new Error()` in delete).
Caught(op, resp) ==
    IF op = "delete" /\ ~resp.rejected THEN "Error" ELSE UpdateCause(resp)

\* C12: every failure of updateValue, updateValues or delete (transport
\* error or non-success status) reaches the caller as EntryUpdateFailed
\* carrying the underlying cause of the failure, for delete as for the two
\* updates.
C12_FailureCarriesCause ==
    ( /\ outcome.op \in EntryOps
      /\ EntryCallFails(outcome.resp) )
    => ( /\ outcome.kind = "EntryUpdateFailed"
         /\ outcome.cause = Caught(outcome.op, outcome.resp) )

\* The entry was constructed from the record its mapping is now.
ConstructedFromRecord ==
    \A i \in DOMAIN entries : entries[i].entryId = getValue(entries[i], IdKey)

\* No step changes the identifier of an entry, and a request that leaves
\* carries the identifier of its entry in filters._id.
IdentifierKept ==
    /\ \A i \in DOMAIN entries : entries'[i].entryId = entries[i].entryId
    /\ Issued =>
          LET c == calls'[Len(calls')]
          IN  c.req.body.filters = [_id |-> entries[c.target].entryId]

\* C15: the identifier of an Owned Entry is fixed at construction: after any
\* sequence of updateValue, updateValues and delete calls, succeeding or
\* failing, updates of the key _id included, the filters._id of every later
\* request of the entry is the _id of the record the entry was constructed
\* from.
C15_IdentifierFixed ==
    ConstructedFromRecord /\ [][IdentifierKept]_vars

\* An update has given the mapping another _id, and a request of the entry
\* still carries the identifier of the record it was constructed from.
C15_Witness ==
    /\ outcome.op \in {"updateValue", "updateValues"}
    /\ outcome.kind = "returned"
    /\ getValue(entries[1], IdKey) # entries[1].entryId
    /\ Len(calls) = 1
    /\ calls[1].req.body.filters = [_id |-> entries[1].entryId]

----------------------------------------------------------------------------
(* Claims about the Collection gateway and the Client, checked under       *)
(* SpecGateway.                                                            *)

GatewayOps == {"exists", "drop", "setName", "createEntry", "getEntryById",
               "getEntries", "deleteEntryById", "deleteEntries",
               "updateEntryById", "updateEntries"}
ClientOps == {"fetchCollection", "createCollection"}

\* The call got a response with status 401.
Got401 == ~outcome.resp.rejected /\ outcome.resp.status = 401

\* The call got a response whose body is JSON with a truthy `success`.
GotSuccess ==
    /\ ~outcome.resp.rejected
    /\ outcome.resp.parses
    /\ ~Falsy(outcome.resp.json, "success")

\* C4: every Collection operation and both network operations of the Client
\* raise Unauthorized for a 401 response, whatever the body is; never
\* CollectionNotFound, CollectionAlreadyExists or EntryNotFound, and exists()
\* does not return false for it.
C4_GatewayUnauthorized ==
    (outcome.op \in GatewayOps \cup ClientOps /\ Got401)
    => outcome.kind = "Unauthorized"

\* exists() got a 401 whose body is no JSON, and raised Unauthorized.
C4_Witness ==
    /\ outcome.op = "exists"
    /\ Got401
    /\ ~outcome.resp.parses
    /\ outcome.kind = "Unauthorized"

\* C8: with a successful response (status 200, `success` true),
\* deleteEntryById / updateEntryById raise EntryNotFound when the reported
\* count is 0 and return the id otherwise; deleteEntries / updateEntries
\* return the reported count, and a count of 0 is returned as 0.
C8_SingleVersusBulk ==
    LET json == outcome.resp.json
        count == IF outcome.op \in {"deleteEntryById", "deleteEntries"}
                 THEN "deletedEntries" ELSE "modifiedEntries"
    IN  ( /\ outcome.op \in {"deleteEntryById", "deleteEntries",
                             "updateEntryById", "updateEntries"}
          /\ GotSuccess
          /\ outcome.resp.status = 200 )
        => IF outcome.op \in {"deleteEntryById", "updateEntryById"}
           THEN IF count \in DOMAIN json /\ json[count] = 0
                THEN outcome.kind = "EntryNotFound"
                ELSE outcome.kind = "returned" /\ outcome.value = outcome.call.id
           ELSE /\ outcome.kind = "returned"
                /\ count \in DOMAIN json => outcome.value = json[count]

\* deleteEntries got a successful response reporting 0 and returned 0.
C8_Witness ==
    /\ outcome.op = "deleteEntries"
    /\ GotSuccess
    /\ "deletedEntries" \in DOMAIN outcome.resp.json
    /\ outcome.resp.json.deletedEntries = 0
    /\ outcome.kind = "returned"
    /\ outcome.value = 0

\* C9: getEntryById ends in one of four ways, decided in this order: a 401
\* response raises Unauthorized; a successful response with zero entries
\* raises EntryNotFound; a successful response with at least one entry
\* returns an Owned Entry made from the first entry, bound to the gateway's
\* token and collection name; everything else (fetch rejected, falsy
\* success, a body that is no JSON or has no entries) raises
\* CollectionNotFound.
C9_GetEntryByIdOutcomes ==
    outcome.op = "getEntryById" =>
       LET json == outcome.resp.json
       IN  IF Got401 THEN outcome.kind = "Unauthorized"
           ELSE IF GotSuccess /\ "entries" \in DOMAIN json
                   /\ Len(json.entries) = 0
           THEN outcome.kind = "EntryNotFound"
           ELSE IF GotSuccess /\ "entries" \in DOMAIN json
                   /\ Len(json.entries) >= 1
           THEN /\ outcome.kind = "returned"
                /\ outcome.value.tier = "Entry"
                /\ outcome.value.accessToken = gateway.accessToken
                /\ outcome.value.collectionName = gateway.collectionName
                /\ outcome.value.entryId = json.entries[1][IdKey]
                /\ getValues(outcome.value) = json.entries[1]
                /\ \E i \in DOMAIN entries : entries[i] = outcome.value
           ELSE outcome.kind = "CollectionNotFound"

\* getEntryById got a successful response with no entry and raised
\* EntryNotFound.
C9_Witness ==
    /\ outcome.op = "getEntryById"
    /\ GotSuccess
    /\ "entries" \in DOMAIN outcome.resp.json
    /\ Len(outcome.resp.json.entries) = 0
    /\ outcome.kind = "EntryNotFound"

----------------------------------------------------------------------------
(* Claims about the gateway's name, checked under SpecRename.              *)

\* C13: setName(newName) leaves the gateway's own name as it was, whether
\* it succeeds or fails: after any sequence of setName calls getName()
\* returns the name given at construction, and every request the gateway
\* sends is addressed to that name.
C13_SetNameKeepsCachedName ==
    /\ getName(gateway) = OriginalName
    /\ \A n \in DOMAIN calls : calls[n].req.collection = OriginalName
    /\ \A j \in DOMAIN trace : trace[j].call.req.collection = OriginalName
    /\ \A j \in DOMAIN trace :
          (trace[j].op = "getEntryById" /\ trace[j].kind = "returned")
             => trace[j].value.collectionName = OriginalName

\* A setName to another name succeeded, and a request sent after it has
\* been answered.
C13_Witness ==
    /\ Len(trace) >= 2
    /\ trace[1].op = "setName"
    /\ trace[1].kind = "returned"
    /\ trace[1].call.name # OriginalName
    /\ trace[2].op = "getEntryById"
    /\ trace[2].kind = "returned"
    /\ ncalls >= 2
    /\ getName(gateway) = OriginalName

----------------------------------------------------------------------------
(* Claims about the SubscriptionManager and Client.on, checked under       *)
(* SpecEvents.                                                             *)

\* The listeners of the first `seen` on() calls that were for `kind`, in
\* call order, one per call.
RegisteredBefore(kind, seen) ==
    LET ForKind(r) == r.kind = kind
        regs == SelectSeq(SubSeq(registry, 1, seen), ForKind)
    IN  [i \in 1..Len(regs) |-> regs[i].listener]

\* The listeners the last event called, in call order.
Called == [i \in 1..Len(dispatch.invoked) |-> dispatch.invoked[i].listener]

\* C6: when a listener raises during the dispatch of an event, every listener
\* registered after it for that kind is still called for the same event, with
\* the arguments the raising listener got (same entry, field mapping,
\* collection name, source id and timestamp), and the channel stays as it
\* was, so that later events are dispatched.
C6_RaisingListenerIsolated ==
    \A i \in DOMAIN dispatch.invoked :
        dispatch.invoked[i].raised =>
            /\ \A j \in (i + 1)..Len(RegisteredBefore(dispatch.kind, dispatch.seen)) :
                  /\ j \in DOMAIN dispatch.invoked
                  /\ dispatch.invoked[j].listener =
                        RegisteredBefore(dispatch.kind, dispatch.seen)[j]
                  /\ dispatch.invoked[j].args = dispatch.invoked[i].args
            /\ hub = "connected"
            /\ ~exited

\* The first of two listeners raised and the second was called.
C6_Witness ==
    /\ dispatch.kind = "entryCreated"
    /\ Len(dispatch.invoked) >= 2
    /\ dispatch.invoked[1].raised
    /\ ~dispatch.invoked[2].raised
    /\ getValues(dispatch.invoked[2].args.entry) = dispatch.event.data.values

\* C7: an inbound event of kind K calls the listeners registered for K before
\* it arrived, once per registration and in registration order, and no
\* listener registered for another kind; Client.on(K, listener) appends the
\* listener to the list the client's one manager keeps for K and returns the
\* client.
C7_DispatchInRegistrationOrder ==
    /\ dispatch.kind \in EventKinds =>
          Called = RegisteredBefore(dispatch.kind, dispatch.seen)
    /\ \A k \in EventKinds :
          (IF k \in DOMAIN subscriptions THEN subscriptions[k] ELSE <<>>)
             = RegisteredBefore(k, Len(registry))
    /\ outcome.op = "on" => (outcome.kind = "returned" /\ outcome.value = Self)

\* Two different listeners of the event's kind were called, a listener of
\* another kind was registered before the event and was not called.
C7_Witness ==
    /\ dispatch.kind = "entryUpdated"
    /\ Len(dispatch.invoked) = 2
    /\ dispatch.invoked[1].listener # dispatch.invoked[2].listener
    /\ \E n \in 1..dispatch.seen :
          /\ registry[n].kind # dispatch.kind
          /\ \A i \in DOMAIN dispatch.invoked :
                dispatch.invoked[i].listener # registry[n].listener

\* e is a read-only Observed Entry on the mapping m of collection c: it has
\* no credential and no identifier to address a request with.
Observed(e, m, c) ==
    /\ e.tier = "BaseEntry"
    /\ DOMAIN e = {"tier", "data", "collectionName"}
    /\ getValues(e) = m
    /\ e.collectionName = c

\* e is an Owned Entry on the mapping m of collection c, bound to the
\* manager's credential.
Owned(e, m, c) ==
    /\ e.tier = "Entry"
    /\ e.accessToken = Token
    /\ getValues(e) = m
    /\ e.collectionName = c

\* C11: every entry handed to a listener exposes the mapping the payload
\* carries for its role, in the tier of that role: entryDeleted gives an
\* Observed Entry on data.values, entryUpdated an Observed Entry on
\* data.oldValues and an Owned Entry on data.newValues, entryCreated an Owned
\* Entry on data.values; Owned entries are bound to the manager's credential
\* and every call carries the payload's collection name, source id and
\* timestamp.
C11_EventEntryTiers ==
    \A i \in DOMAIN dispatch.invoked :
        LET a == dispatch.invoked[i].args
            d == dispatch.event
            c == d.data.collectionName
        IN  /\ a.databaseId = d.databaseId
            /\ a.timestamp = d.timestamp
            /\ dispatch.kind = "entryCreated" =>
                   Owned(a.entry, d.data.values, c)
            /\ dispatch.kind = "entryDeleted" =>
                   Observed(a.entry, d.data.values, c)
            /\ dispatch.kind = "entryUpdated" =>
                   /\ Observed(a.oldEntry, d.data.oldValues, c)
                   /\ Owned(a.newEntry, d.data.newValues, c)

\* An entryUpdated event whose two mappings differ reached a listener.
C11_Witness ==
    /\ dispatch.kind = "entryUpdated"
    /\ Len(dispatch.invoked) >= 1
    /\ dispatch.event.data.oldValues # dispatch.event.data.newValues
    /\ getValues(dispatch.invoked[1].args.newEntry)
          = dispatch.event.data.newValues

\* C18: an inbound event of a kind for which no listener has ever been
\* registered is dropped without an error being raised in the message
\* handler: no listener is called, and the channel stays as it was, so that
\* later events are dispatched.
C18_UnlistenedEventDropped ==
    ( /\ dispatch.kind \in EventKinds
      /\ RegisteredBefore(dispatch.kind, dispatch.seen) = <<>> )
    => ( /\ ~dispatch.threw
         /\ dispatch.invoked = <<>>
         /\ hub = "connected"
         /\ ~exited )

----------------------------------------------------------------------------
(* Claims about the hub connection, checked under SpecChannel.             *)

\* The channel moves from Connecting to Connected or to Failed-Terminal and
\* nowhere else: the handshake that the constructor started is the only one.
ChannelMoves ==
    hub' # hub => (hub = "connecting" /\ hub' \in {"connected", "failed"})

\* Failed-Terminal is absorbing and stops the process: nothing changes
\* afterwards, no listener is called.
FailedIsTerminal ==
    /\ (hub' = "failed") <=> exited'
    /\ hub = "failed" => UNCHANGED vars

\* An event is dispatched only on a Connected channel, and to every listener
\* registered for its kind, those registered while Connecting included.
ConnectedDelivers ==
    dispatch' # dispatch =>
        /\ hub = "connected"
        /\ [i \in 1..Len(dispatch'.invoked) |-> dispatch'.invoked[i].listener]
              = RegisteredBefore(dispatch'.kind, Len(registry))

\* C14: the channel goes Connecting -> Connected, or Connecting ->
\* Failed-Terminal when the handshake is rejected; the handshake is started
\* once, at construction; Failed-Terminal is absorbing, the process stops
\* there and no listener is called afterwards; listeners registered while
\* the channel is Connecting receive the events that arrive once it is
\* Connected.
C14_ChannelStateMachine ==
    [][ ChannelMoves /\ FailedIsTerminal /\ ConnectedDelivers ]_vars

\* Two listeners registered while Connecting were called for an event.
C14_Witness ==
    /\ hub = "connected"
    /\ dispatch.kind = "entryCreated"
    /\ Len(dispatch.invoked) = 2
    /\ Len(registry) >= 2

----------------------------------------------------------------------------
(* Claims about notifications racing with the caller's own updates,        *)
(* checked under SpecRace.                                                 *)

\* The handling of a notification changes no entry the caller holds.
PushLeavesHeldEntries ==
    nevents' # nevents =>
        /\ entries' = entries
        /\ \A i \in DOMAIN entries :
              heap'[entries[i].data] = getValues(entries[i])

\* A successful updateValue(k, v) leaves the mapping as it was when the call
\* left, but for k, which is v: whatever was handled in between.
UpdateSetsOneKey ==
    ( /\ Resumed
      /\ outcome'.op = "updateValue"
      /\ outcome'.kind = "returned" ) =>
        LET c == outcome'.call
            before == trace[Len(trace)].values
        IN  heap'[entries[c.target].data] = Assign(before, c.key, c.value)

\* The entries the listeners of the last notification were given carry the
\* mappings of its payload.
ListenersHoldPayload ==
    \A i \in DOMAIN dispatch.invoked :
        LET a == dispatch.invoked[i].args
            d == dispatch.event.data
        IN  /\ dispatch.kind = "entryCreated" =>
                   getValues(a.entry) = d.values
            /\ dispatch.kind = "entryDeleted" =>
                   getValues(a.entry) = d.values
            /\ dispatch.kind = "entryUpdated" =>
                   /\ getValues(a.oldEntry) = d.oldValues
                   /\ getValues(a.newEntry) = d.newValues

\* C16: a push notification for a record never changes the mapping of an
\* Owned Entry the caller holds for the same identifier, it only builds new
\* entries for the listeners; when the caller's updateValue(k, v) and a
\* notification for the same record race, in either completion order the
\* held mapping after the successful updateValue has k = v and every other
\* key as before the call, and the listeners' entries carry the payload.
C16_PushLeavesHeldEntry ==
    /\ []ListenersHoldPayload
    /\ [][PushLeavesHeldEntries /\ UpdateSetsOneKey]_vars

\* Both completion orders in one run: a notification was handled while the
\* first updateValue was in flight; the second updateValue ended before the
\* next notification was handled.  The held mapping is not the payload's.
C16_Witness ==
    /\ Len(trace) = 4
    /\ trace[1].nevents = 0
    /\ trace[2].nevents = 1 /\ trace[2].kind = "returned"
    /\ trace[3].nevents = 1
    /\ trace[4].nevents = 1 /\ trace[4].kind = "returned"
    /\ nevents = 2
    /\ dispatch.kind = "entryUpdated"
    /\ getValues(entries[1]) # dispatch.event.data.newValues
    /\ getValues(dispatch.invoked[1].args.newEntry)
          = dispatch.event.data.newValues

----------------------------------------------------------------------------
(* Claims about the create, update, re-fetch round trip, checked under     *)
(* SpecRoundTrip.                                                          *)

\* The call that has just returned, and whether it returned a value.
TripReturned(op) ==
    /\ Resumed
    /\ outcome'.op = op
    /\ outcome'.kind = "returned"

\* t is: a createEntry that returned, then nothing but successful
\* updateValue calls on the entry it returned.
CreateThenUpdates(t) ==
    /\ Len(t) >= 1
    /\ t[1].op = "createEntry" /\ t[1].kind = "returned"
    /\ \A j \in 2..Len(t) :
          t[j].op = "updateValue" /\ t[j].kind = "returned" /\ t[j].target = 1

\* The record the backend keeps under the identifier id in collection c.
Stored(store, c, id) ==
    { store[i].record :
        i \in { j \in DOMAIN store : /\ store[j].collection = c
                                     /\ store[j].record[IdKey] = id } }

\* createEntry(d) returns an Owned Entry over d, d now carrying the
\* identifier the backend assigned, and the backend keeps that mapping
\* under that identifier.
CreateReturnsDataPlusId ==
    TripReturned("createEntry") =>
        LET ref == outcome'.call.data
            id == outcome'.resp.json.objectId
        IN  /\ outcome'.value.tier = "Entry"
            /\ outcome'.value.data = ref
            /\ outcome'.value.entryId = id
            /\ heap'[ref] = Assign(heap[ref], IdKey, id)
            /\ heap'[ref] \in Stored(db', gateway.collectionName, id)

\* a successful updateValue(k, v) returns the entry's mapping, with k set to v
UpdateReturnsMerged ==
    TripReturned("updateValue") =>
        LET e == entries[outcome'.target]
            c == outcome'.call
        IN  /\ outcome'.value = e.data
            /\ heap'[e.data] = Assign(heap[e.data], c.key, c.value)

\* getEntryById(assigned id), after the creation and the updates, returns an
\* entry with that id whose mapping is the one the first entry holds.
RefetchEqualsLocal ==
    ( /\ Resumed
      /\ outcome'.op = "getEntryById"
      /\ CreateThenUpdates(trace)
      /\ outcome'.call.id = trace[1].resp.json.objectId ) =>
        /\ outcome'.kind = "returned"
        /\ outcome'.value.tier = "Entry"
        /\ outcome'.value.entryId = trace[1].resp.json.objectId
        /\ heap'[outcome'.value.data] = heap'[entries'[1].data]

\* C10: against a backend that stores what it is sent, with one client and
\* no failures, createEntry(d) returns an Owned Entry whose mapping is d plus
\* the assigned _id; a following successful updateValue(k, v) on it returns
\* that mapping with k set to v; and a following getEntryById of the
\* assigned id returns an entry with that id whose mapping equals the one
\* the first entry holds locally.
C10_RoundTrip ==
    [][ /\ CreateReturnsDataPlusId
        /\ UpdateReturnsMerged
        /\ RefetchEqualsLocal ]_vars

----------------------------------------------------------------------------
(* A claim about the mapping's _id, checked under SpecEntry.               *)

\* C19: in every reachable state the _id field of an Owned Entry's mapping
\* is the identifier the entry is bound to (the one it sends in request
\* filters), also after updateValue("_id", x) and after a second createEntry
\* that is passed the data object of an earlier one.
C19_MappingIdIsBoundId ==
    \A i \in DOMAIN entries :
        entries[i].tier = "Entry" =>
            Get(getValues(entries[i]), IdKey) = entries[i].entryId

----------------------------------------------------------------------------
(* Claims about overlapping updates, checked under SpecConcurrent.         *)

\* C17: several updateValue/updateValues calls may be in flight at once on
\* one Owned Entry: with the entry as the only writer and the backend
\* applying requests in the order it receives them, once every call has
\* ended successfully the entry's value of every written key is the value
\* the backend stores for it, whatever the order in which requests arrive
\* and responses are delivered, two calls writing the same key included.
C17_ConcurrentUpdatesAgree ==
    ( /\ calls = <<>>
      /\ ncalls > 0
      /\ outcome.kind = "returned" ) =>
        \A r \in Stored(db, entries[1].collectionName, entries[1].entryId) :
            \A k \in DOMAIN r : getValue(entries[1], k) = r[k]

============================================================================
